---- MODULE Spec2Model ----
(***************************************************************************)
(* Model of the sandboxed code-execution service of Learnline-CMS-2.0:     *)
(*   src/mcp-management/safety_validator.py   SafetyValidator              *)
(*   src/mcp-management/code_executor.py      CodeExecutor                 *)
(*                                                                         *)
(* Text is modelled as a sequence of tokens (strings); the white-space     *)
(* tokens are kept apart so that str.strip() and "begins with" are         *)
(* computed, not assumed.  A module name is the sequence of its dotted     *)
(* segments ("os.path" is <<"os","path">>), an identifier is the sequence  *)
(* <<"__","class","__">> or <<"eval">>, so that str.split('.') and         *)
(* startswith('__')/endswith('__') are computed as well.                   *)
(***************************************************************************)
EXTENDS Integers, Sequences, FiniteSets, TLC

\* ------------------------------------------------------------------------
\* Bounds of the model
\* ------------------------------------------------------------------------
MaxParts == 2

\* ------------------------------------------------------------------------
\* Capability policy (class attributes of SafetyValidator)
\* ------------------------------------------------------------------------
DANGEROUS_IMPORTS ==
  { <<"os">>, <<"sys">>, <<"shutil">>, <<"pathlib">>, <<"glob">>, <<"fnmatch">>,
    <<"tempfile">>, <<"io">>, <<"fileinput">>,
    <<"subprocess">>, <<"multiprocessing">>, <<"threading">>, <<"asyncio">>,
    <<"socket">>, <<"urllib">>, <<"http">>, <<"ftplib">>, <<"telnetlib">>,
    <<"smtplib">>, <<"poplib">>, <<"imaplib">>, <<"nntplib">>,
    <<"ssl">>, <<"socketserver">>,
    <<"importlib">>, <<"pkgutil">>, <<"runpy">>, <<"code">>, <<"codeop">>,
    <<"ctypes">>, <<"platform">>, <<"resource">>, <<"signal">>,
    <<"pickle">>, <<"shelve">>, <<"marshal">> }

DANGEROUS_BUILTINS ==
  { <<"eval">>, <<"exec">>, <<"compile">>, <<"__", "import", "__">>,
    <<"open">>, <<"input">>, <<"raw_input">>,
    <<"exit">>, <<"quit">>,
    <<"globals">>, <<"locals">>, <<"vars">>,
    <<"getattr">>, <<"setattr">>, <<"delattr">>,
    <<"hasattr">> }

ALLOWED_IMPORTS ==
  { <<"pandas">>, <<"numpy">>, <<"networkx">>,
    <<"math">>, <<"statistics">>, <<"decimal">>, <<"fractions">>,
    <<"collections">>, <<"itertools">>, <<"functools">>,
    <<"datetime">>, <<"time">>, <<"calendar">>,
    <<"json">>, <<"csv">>, <<"re">>, <<"string">>,
    <<"code_helpers">> }

MAX_CODE_LENGTH == 1000

\* variant: __class__ is taken for harmless too
safe_dunders_with_class ==
  { <<"__", "init", "__">>, <<"__", "str", "__">>,
    <<"__", "repr", "__">>, <<"__", "len", "__">>, <<"__", "class", "__">> }

safe_dunders ==
  { <<"__", "init", "__">>, <<"__", "str", "__">>,
    <<"__", "repr", "__">>, <<"__", "len", "__">> }

\* ------------------------------------------------------------------------
\* Syntax trees (the node kinds the scan distinguishes)
\* ------------------------------------------------------------------------
Node(kind, id, mods, kids) ==
  [kind |-> kind, id |-> id, mods |-> mods, kids |-> kids]

\* ast.Name(id)
Name(id) == Node("Name", id, <<>>, <<>>)
\* ast.Attribute(value, attr)
Attribute(value, attr) == Node("Attribute", attr, <<>>, <<value>>)
\* ast.Call(func, args): the function is the first child
Call(func, args) == Node("Call", <<>>, <<>>, <<func>> \o args)
\* ast.Import(names): one module name per alias
Import(names) == Node("Import", <<>>, names, <<>>)
\* ast.ImportFrom(module): mods is <<>> when node.module is None (from . import x)
ImportFrom(mods) == Node("ImportFrom", <<>>, mods, <<>>)
\* any other statement or expression node (Expr, Assign, If, FunctionDef, ...)
Stmt(kids) == Node("Stmt", <<>>, <<>>, kids)
\* ast.Constant and other leaves
Constant == Node("Constant", <<>>, <<>>, <<>>)
\* ast.Module(body)
Module(body) == Node("Module", <<>>, <<>>, body)

\* variant: a walk that does not descend below a Call node
RECURSIVE walk_stops_at_calls(_)
walk_stops_at_calls(todo) ==
  IF todo = <<>> THEN <<>>
  ELSE <<Head(todo)>>
       \o walk_stops_at_calls(Tail(todo) \o (IF Head(todo).kind = "Call" THEN <<>>
                                              ELSE Head(todo).kids))

\* ast.walk: breadth-first, children in field order
RECURSIVE walk(_)
walk(todo) ==
  IF todo = <<>> THEN <<>>
  ELSE <<Head(todo)>> \o walk(Tail(todo) \o Head(todo).kids)

\* ------------------------------------------------------------------------
\* SafetyValidator
\* ------------------------------------------------------------------------
Violation(kind, detail) == [kind |-> kind, detail |-> detail]

\* the dotted prefixes parts[:i+1] of a module name
Prefixes(parts) == { SubSeq(parts, 1, i) : i \in 1..Len(parts) }

\* variant: anything not denied by name is let through (open world)
_is_import_safe_open_world(module_name) ==
  IF module_name \in DANGEROUS_IMPORTS THEN FALSE
  ELSE TRUE

\* variant: the allow test looks at every segment instead of the dotted prefixes
_is_import_safe_any_segment(module_name) ==
  IF module_name \in DANGEROUS_IMPORTS THEN FALSE
  ELSE IF \E i \in 1..Len(module_name) : <<module_name[i]>> \in ALLOWED_IMPORTS
  THEN TRUE
  ELSE FALSE

_is_import_safe(module_name) ==
  IF module_name \in DANGEROUS_IMPORTS THEN FALSE
  ELSE IF Prefixes(module_name) \cap ALLOWED_IMPORTS # {} THEN TRUE
  ELSE FALSE

\* attr.startswith('__') and attr.endswith('__')
IsDunderShaped(attr) ==
  /\ attr # <<>>
  /\ Head(attr) = "__"
  /\ attr[Len(attr)] = "__"

\* the aliases of one Import node, in order, that fail the module test
RECURSIVE ImportViolations(_)
ImportViolations(names) ==
  IF names = <<>> THEN <<>>
  ELSE (IF ~_is_import_safe(Head(names))
        THEN <<Violation("dangerous_import", Head(names))>> ELSE <<>>)
       \o ImportViolations(Tail(names))

\* the Call branch of the scan (lines 162-172)
CallViolations(node) ==
  LET func == node.kids[1] IN
  IF func.kind = "Name"
  THEN IF func.id \in DANGEROUS_BUILTINS
       THEN <<Violation("dangerous_builtin", func.id)>> ELSE <<>>
  ELSE IF func.kind = "Attribute"
  THEN IF func.kids[1].kind = "Name" /\ func.kids[1].id = <<"__", "builtins", "__">>
       THEN <<Violation("builtin_access", <<"__", "builtins", "__", ".">> \o func.id)>>
       ELSE <<>>
  ELSE <<>>

\* the body of the scan loop for one node (lines 151-180): an if/elif chain
ScanNode(node) ==
  IF node.kind = "Import" THEN ImportViolations(node.mods)
  ELSE IF node.kind = "ImportFrom"
  THEN IF node.mods # <<>> /\ ~_is_import_safe(node.mods[1])
       THEN <<Violation("dangerous_import", node.mods[1])>> ELSE <<>>
  ELSE IF node.kind = "Call" THEN CallViolations(node)
  ELSE IF node.kind = "Attribute"
  THEN IF IsDunderShaped(node.id) /\ node.id \notin safe_dunders
       THEN <<Violation("dunder_access", node.id)>> ELSE <<>>
  ELSE <<>>

\* variant: the scan returns at the first violating node
RECURSIVE ScanAll_stops_at_first(_)
ScanAll_stops_at_first(nodes) ==
  IF nodes = <<>> THEN <<>>
  ELSE IF ScanNode(Head(nodes)) # <<>> THEN ScanNode(Head(nodes))
  ELSE ScanAll_stops_at_first(Tail(nodes))

RECURSIVE ScanAll(_)
ScanAll(nodes) ==
  IF nodes = <<>> THEN <<>>
  ELSE ScanNode(Head(nodes)) \o ScanAll(Tail(nodes))

\* for node in ast.walk(tree): ...   (lines 150-180)
Scan(tree) == ScanAll(walk(<<tree>>))


\* ------------------------------------------------------------------------
\* Text helpers
\* ------------------------------------------------------------------------
Whitespace == {" ", "\n"}

RECURSIVE LStrip(_)
LStrip(s) ==
  IF s = <<>> THEN <<>>
  ELSE IF Head(s) \in Whitespace THEN LStrip(Tail(s)) ELSE s

RECURSIVE RStrip(_)
RStrip(s) ==
  IF s = <<>> THEN <<>>
  ELSE IF s[Len(s)] \in Whitespace THEN RStrip(SubSeq(s, 1, Len(s) - 1)) ELSE s

\* str.strip()
Strip(s) == RStrip(LStrip(s))

\* '.'.join(parts)
RECURSIVE Dotted(_)
Dotted(parts) ==
  IF Len(parts) <= 1 THEN parts
  ELSE <<Head(parts), ".">> \o Dotted(Tail(parts))

BeginsWith(text, prefix) ==
  /\ Len(prefix) <= Len(text)
  /\ SubSeq(text, 1, Len(prefix)) = prefix

\* ', '.join(sorted(ALLOWED_IMPORTS)), kept as one token
AllowedList == "<sorted ALLOWED_IMPORTS>"

\* ------------------------------------------------------------------------
\* Source values handed to validate / execute_code
\*   isStr      the value is a str
\*   truthy     bool(code): non-empty str, non-zero number, ...
\*   blank      code.strip() is empty
\*   lines      number of text lines, trailingNL: the text ends with "\n"
\*   parse      what ast.parse does: "ok", "SyntaxError" or "Exception"
\*   tree       the syntax tree when parse = "ok"
\*   behaviour  what the program does in the container: "exit0", "exit1", "sleep"
\*   out, err   what it writes to stdout and stderr
\* ------------------------------------------------------------------------
Source(isStr, truthy, blank, lines, trailingNL, parse, tree, behaviour, out, err) ==
  [isStr |-> isStr, truthy |-> truthy, blank |-> blank, lines |-> lines,
   trailingNL |-> trailingNL, parse |-> parse, tree |-> tree,
   behaviour |-> behaviour, out |-> out, err |-> err]

\* a parsable one-line-per-statement str source with the given tree
Program(tree, behaviour, out, err) ==
  Source(TRUE, TRUE, FALSE, Len(tree.kids), FALSE, "ok", tree, behaviour, out, err)

\* len(code.split('\n'))
SplitLen(code) == IF code.trailingNL THEN code.lines + 1 ELSE IF code.lines = 0 THEN 1 ELSE code.lines

\* ------------------------------------------------------------------------
\* SafetyValidator.validate and its messages
\* ------------------------------------------------------------------------
Result(raised, safe, reason, violations) ==
  [raised |-> raised, safe |-> safe, reason |-> reason, violations |-> violations]

_format_violation_message(violation) ==
  IF violation.kind = "dangerous_import"
  THEN <<"Import '">> \o Dotted(violation.detail)
       \o <<"' is blocked for security. Allowed imports: ", AllowedList>>
  ELSE IF violation.kind = "dangerous_builtin"
  THEN <<"Function '">> \o violation.detail
       \o <<"()' is blocked for security. This function can execute arbitrary code or access the file system.">>
  ELSE IF violation.kind = "builtin_access"
  THEN <<"Access to '">> \o violation.detail
       \o <<"' is blocked. Direct access to Python internals is not allowed.">>
  ELSE IF violation.kind = "dunder_access"
  THEN <<"Access to dunder attribute '">> \o violation.detail
       \o <<"' is blocked for security.">>
  ELSE <<"Code validation failed: ", violation.kind>>

\* variant: the list of the earlier call is kept and appended to
rebind_violations_keeps(self_violations) ==
  [list |-> self_violations, same_object |-> TRUE]

\* line 114, self.violations = []: the attribute now names a new empty list;
\* the list it named before is a different object and is left as it was
rebind_violations(self_violations) ==
  [list |-> <<>>, same_object |-> FALSE]

\* variant: an exception of ast.parse other than SyntaxError is not caught
validate_unguarded_parse(self_violations, code) ==
  IF ~code.truthy
  THEN Result(FALSE, FALSE, <<"Empty code provided">>, <<Violation("empty_code", <<>>)>>)
  ELSE IF ~code.isStr
  THEN Result(TRUE, FALSE, <<"AttributeError">>, <<>>)
  ELSE IF code.blank
  THEN Result(FALSE, FALSE, <<"Empty code provided">>, <<Violation("empty_code", <<>>)>>)
  ELSE IF SplitLen(code) > MAX_CODE_LENGTH
  THEN Result(FALSE, FALSE,
              <<"Code exceeds maximum length of ", ToString(MAX_CODE_LENGTH),
                " lines (got ", ToString(SplitLen(code)), " lines)">>,
              <<Violation("code_too_long", <<>>)>>)
  ELSE IF code.parse = "SyntaxError"
  THEN Result(FALSE, FALSE, <<"Syntax error at line ", "<lineno>", ": ", "<msg>">>,
              <<Violation("syntax_error", <<>>)>>)
  ELSE IF code.parse = "Exception"
  THEN Result(TRUE, FALSE, <<"Exception">>, <<>>)
  ELSE LET found == rebind_violations(self_violations).list \o Scan(code.tree) IN
       IF found # <<>>
       THEN Result(FALSE, FALSE, _format_violation_message(found[1]), found)
       ELSE Result(FALSE, TRUE, <<>>, <<>>)

validate(self_violations, code) ==
  IF ~code.truthy
  THEN Result(FALSE, FALSE, <<"Empty code provided">>, <<Violation("empty_code", <<>>)>>)
  ELSE IF ~code.isStr
  THEN \* code.strip() raises AttributeError
       Result(TRUE, FALSE, <<"AttributeError">>, <<>>)
  ELSE IF code.blank
  THEN Result(FALSE, FALSE, <<"Empty code provided">>, <<Violation("empty_code", <<>>)>>)
  ELSE IF SplitLen(code) > MAX_CODE_LENGTH
  THEN Result(FALSE, FALSE,
              <<"Code exceeds maximum length of ", ToString(MAX_CODE_LENGTH),
                " lines (got ", ToString(SplitLen(code)), " lines)">>,
              <<Violation("code_too_long", <<>>)>>)
  ELSE IF code.parse = "SyntaxError"
  THEN Result(FALSE, FALSE, <<"Syntax error at line ", "<lineno>", ": ", "<msg>">>,
              <<Violation("syntax_error", <<>>)>>)
  ELSE IF code.parse = "Exception"
  THEN Result(FALSE, FALSE, <<"Failed to parse code: ", "<exception>">>,
              <<Violation("parse_error", <<>>)>>)
  ELSE LET found == rebind_violations(self_violations).list \o Scan(code.tree) IN
       IF found # <<>>
       THEN Result(FALSE, FALSE, _format_violation_message(found[1]), found)
       ELSE Result(FALSE, TRUE, <<>>, <<>>)

\* the scan of lines 150-180 is reached
ScanReached(code) ==
  /\ code.truthy /\ code.isStr /\ ~code.blank
  /\ SplitLen(code) <= MAX_CODE_LENGTH /\ code.parse = "ok"

\* self.violations when validate returns (or raises): rebound on entry,
\* appended to only by the scan
ViolationsAfter(self_violations, code) ==
  IF ScanReached(code)
  THEN rebind_violations(self_violations).list \o Scan(code.tree)
  ELSE rebind_violations(self_violations).list

\* line 187: when the scan left self.violations non-empty the list in the
\* result is self.violations itself; every other return builds its own list
SharesList(code, violations_after) ==
  ScanReached(code) /\ violations_after # <<>>


\* ------------------------------------------------------------------------
\* CodeExecutor: constants, envelopes, outcomes
\* ------------------------------------------------------------------------
TIMEOUT_SECONDS == 5

\* the U+274C cross mark and the blank that open every error text
CrossMark == <<"(U+274C) ">>

_success_response(output) ==
  [content |-> << [type |-> "text",
                   text |-> IF output # <<>>
                            THEN <<"Code executed successfully:\n\n">> \o output
                            ELSE <<"Code executed successfully (no output)">>] >>]

_error_response(error_message) ==
  [content |-> << [type |-> "text", text |-> CrossMark \o error_message] >>,
   isError |-> TRUE]

DockerUnavailableMessage ==
  <<"Docker is not available. Please ensure Docker is installed and running.\n",
    "Install Docker: https://www.docker.com/products/docker-desktop/">>

TimeoutNotice ==
  <<"[TIMEOUT] Code execution exceeded ", ToString(TIMEOUT_SECONDS),
    " seconds and was killed.", "\n">>

Outcome(success, out, err, code, timedOut) ==
  [success |-> success, stdout |-> out, stderr |-> err,
   exit_code |-> code, timed_out |-> timedOut]

\* variant: the except clauses report exit status 0
ExceptOutcome_exit_zero(exc) ==
  IF exc = "ImageNotFound"
  THEN Outcome(FALSE, <<>>, <<"Docker image '", "cms-code-executor",
                              "' not found. Please build it first:\n",
                              "cd mcp-management/code-execution && docker build -t ",
                              "cms-code-executor", " .">>, 0, FALSE)
  ELSE IF exc = "APIError"
  THEN Outcome(FALSE, <<>>, <<"Docker API error: ", "<APIError>">>, 0, FALSE)
  ELSE Outcome(FALSE, <<>>, <<"Unexpected error: ", exc>>, 0, FALSE)

\* the outcome returned by the except clauses of _execute_in_docker
ExceptOutcome(exc) ==
  IF exc = "ImageNotFound"
  THEN Outcome(FALSE, <<>>, <<"Docker image '", "cms-code-executor",
                              "' not found. Please build it first:\n",
                              "cd mcp-management/code-execution && docker build -t ",
                              "cms-code-executor", " .">>, -1, FALSE)
  ELSE IF exc = "APIError"
  THEN Outcome(FALSE, <<>>, <<"Docker API error: ", "<APIError>">>, -1, FALSE)
  ELSE Outcome(FALSE, <<>>, <<"Unexpected error: ", exc>>, -1, FALSE)

\* the record the except clause that builds the outcome writes to the log
ExceptLog(exc) ==
  IF exc = "ImageNotFound" THEN <<>>
  ELSE IF exc = "APIError" THEN <<"log: Docker API error">>
  ELSE <<"log: Unexpected error during Docker execution">>

\* what a call on the Docker API does: it answers, answers with an error,
\* or cannot reach the daemon
ApiResults(up) == IF up THEN {"ok", "APIError"} ELSE {"ConnectionError"}

\* variant: the notice is put after what was captured
WithTimeoutNotice_appended(timedOut, captured) ==
  IF timedOut THEN captured \o TimeoutNotice ELSE captured

\* lines 248-250: the notice goes in front of what was captured
WithTimeoutNotice(timedOut, captured) ==
  IF timedOut THEN TimeoutNotice \o captured ELSE captured

\* variant: the session_id check is missing
execute_code_gate_no_session_check(code, session_id, client) ==
  IF ~code.truthy THEN "no_code"
  ELSE IF ~client THEN "no_docker"
  ELSE "validate"

\* which of the early returns of execute_code is taken (lines 124-138)
execute_code_gate(code, session_id, client) ==
  IF ~code.truthy THEN "no_code"
  ELSE IF session_id = <<>> THEN "no_session"
  ELSE IF ~client THEN "no_docker"
  ELSE "validate"

\* the statements _write_code_to_temp_file writes in front of the code:
\* import os \n session_id = os.environ.get('SESSION_ID')
Preamble ==
  << Import(<< <<"os">> >>),
     Stmt(<< Name(<<"session_id">>),
             Call(Attribute(Attribute(Name(<<"os">>), <<"environ">>), <<"get">>),
                  <<Constant>>) >>) >>

\* the module the written file holds: the preamble, then the code as it is
_write_code_to_temp_file(code) == Module(Preamble \o code.tree.kids)

\* the names tempfile.mkstemp can give
MaxPaths == 2
Paths == 1..MaxPaths

\* variant: the code is always written to the same path
mkstemp_fixed_name(existing) == 1

\* tempfile.mkstemp(suffix='.py', prefix='cms_code_'): a path at which no file
\* exists
mkstemp(existing) ==
  CHOOSE p \in Paths \ existing : \A q \in Paths \ existing : p <= q

\* the normalisation of an outcome into an envelope (lines 151-156)
normalize(execution_result) ==
  IF execution_result.success
  THEN _success_response(execution_result.stdout)
  ELSE _error_response(<<"Code execution failed:\n">> \o execution_result.stderr)


\* ------------------------------------------------------------------------
\* The calls made on the executor
\* ------------------------------------------------------------------------
\* import os \n os.system('ls')
TreeOs ==
  Module(<< Import(<< <<"os">> >>),
            Stmt(<< Call(Attribute(Name(<<"os">>), <<"system">>), <<Constant>>) >>) >>)
\* result = 2 + 2 \n print(f'Result: {result}')
TreePrint ==
  Module(<< Stmt(<<Name(<<"result">>), Constant>>),
            Stmt(<< Call(Name(<<"print">>), <<Constant>>) >>) >>)
\* import time \n time.sleep(10)
TreeSleep ==
  Module(<< Import(<< <<"time">> >>),
            Stmt(<< Call(Attribute(Name(<<"time">>), <<"sleep">>), <<Constant>>) >>) >>)

NoTree == Module(<<>>)

\* ""
SrcEmpty == Source(TRUE, FALSE, TRUE, 0, FALSE, "ok", NoTree, "exit0", <<>>, <<>>)
\* "  \n"
SrcBlank == Source(TRUE, TRUE, TRUE, 1, TRUE, "ok", NoTree, "exit0", <<>>, <<>>)
\* 123: a value that is not a str
SrcInt == Source(FALSE, TRUE, FALSE, 0, FALSE, "ok", NoTree, "exit0", <<>>, <<>>)
\* "print('hello'\n"
SrcSyntax == Source(TRUE, TRUE, FALSE, 1, TRUE, "SyntaxError", NoTree, "exit0", <<>>, <<>>)
\* "1" + "+1" * 100000: ast.parse raises RecursionError
SrcDeep == Source(TRUE, TRUE, FALSE, 1, FALSE, "Exception", NoTree, "exit0", <<>>, <<>>)
SrcOs == Program(TreeOs, "exit0", <<>>, <<>>)
SrcPrint == Program(TreePrint, "exit0", <<"Result: 4", "\n">>, <<>>)
\* os.system('ls'), with no import of its own
SrcUsesOs ==
  Program(Module(<< Stmt(<< Call(Attribute(Name(<<"os">>), <<"system">>),
                                 <<Constant>>) >>) >>),
          "exit0", <<"user_code.py", "\n">>, <<>>)
\* a program that prints nothing
SrcSilent == Program(TreePrint, "exit0", <<>>, <<>>)
\* a program that raises: traceback on stderr, exit status 1
SrcFail == Program(TreePrint, "exit1", <<"partial", "\n">>, <<"Traceback", "\n">>)
SrcSleep == Program(TreeSleep, "sleep", <<>>, <<>>)
\* a sleeping program that wrote to stderr before it was killed
SrcSleepNoisy == Program(TreeSleep, "sleep", <<>>, <<" ", "warning", "\n">>)

ExecSources ==
  { SrcEmpty, SrcBlank, SrcInt, SrcSyntax, SrcDeep, SrcOs, SrcPrint, SrcUsesOs,
    SrcSilent, SrcFail,
    SrcSleep, SrcSleepNoisy }

SessionIds == { <<>>, <<"test-session">> }

\* ------------------------------------------------------------------------
\* State
\* ------------------------------------------------------------------------
VARIABLES
  DOCKER_AVAILABLE,  \* the docker package could be imported
  daemonUp,          \* the Docker daemon answers
  imagePresent,      \* the image cms-code-executor exists
  docker_client,     \* self.docker_client is not None
  violations,        \* self.validator.violations
  pc,                \* where the current execute_code call stands
  code, session_id,  \* its arguments
  validation_result, \* <<result>> once validate has returned
  temp_file,         \* _execute_in_docker's local temp_file is not None
  fileExists,        \* the file made by mkstemp in this call is on disk
  container,         \* _execute_in_docker's local container is not None
  containerState,    \* "none", "running", "exited", "removed"
  exit_code, timed_out,
  execution_result,  \* <<outcome>> once _execute_in_docker has one to return
  envelope,          \* <<envelope>> once execute_code has returned one
  raised,            \* an exception left execute_code
  events,            \* the operations of the current call and the warnings and
                     \* errors it logged, in order
  waitError,         \* why container.wait raised: "none", "timeout", "api"
  daemonAtCall,      \* daemonUp at the moment execute_code was called
  earlier,           \* <<[code, result]>>: a result of an earlier validate call
                     \* that its caller still holds, as it reads now
  earlierShared,     \* the list in that result is the object self.violations names
  otherFiles,        \* the paths of the temp files the other call left on disk
  otherContainer,    \* the container the other call left: "none", "running", "exited"
  temp_path,         \* the path mkstemp returned in this call, 0 before
  run_args,          \* <<[volume, SESSION_ID]>>: what containers.run was given
  waiting,           \* a second call has been submitted and waits for the event loop
  overlap            \* this call was submitted while the call before it was running

envVars == <<DOCKER_AVAILABLE, daemonUp, imagePresent, docker_client>>
callVars == <<pc, code, session_id, validation_result, temp_file, fileExists,
              container, containerState, exit_code, timed_out, execution_result,
              envelope, raised, events, waitError, daemonAtCall>>
heldVars == <<earlier, earlierShared>>
ownerVars == <<otherFiles, otherContainer, temp_path, run_args, waiting, overlap>>
vars == <<envVars, violations, callVars, heldVars, ownerVars>>

\* the locals of a call before it starts
FreshCall ==
  /\ pc = "idle"
  /\ code = SrcEmpty
  /\ session_id = <<>>
  /\ validation_result = <<>>
  /\ temp_file = FALSE
  /\ fileExists = FALSE
  /\ container = FALSE
  /\ containerState = "none"
  /\ exit_code = 0
  /\ timed_out = FALSE
  /\ execution_result = <<>>
  /\ envelope = <<>>
  /\ raised = FALSE
  /\ events = <<>>
  /\ waitError = "none"
  /\ daemonAtCall = FALSE

\* CodeExecutor.__init__: the client is kept only if the package is there and
\* the daemon answered the ping
Init ==
  /\ DOCKER_AVAILABLE \in BOOLEAN
  /\ daemonUp \in BOOLEAN
  /\ imagePresent \in BOOLEAN
  /\ docker_client = (DOCKER_AVAILABLE /\ daemonUp)
  /\ violations = <<>>
  /\ earlier = <<>>
  /\ earlierShared = FALSE
  /\ otherFiles = {}
  /\ otherContainer = "none"
  /\ temp_path = 0
  /\ run_args = <<>>
  /\ waiting = FALSE
  /\ overlap = FALSE
  /\ FreshCall


\* ------------------------------------------------------------------------
\* execute_code (lines 117-144): input checks, availability check, validation
\* ------------------------------------------------------------------------
ValidationFailedMessage(vr) ==
  <<"Code validation failed: ">> \o vr.reason
  \o <<"\n\n", "Allowed imports: ", AllowedList>>

ExecuteCode(c, sid) ==
  /\ pc = "idle"
  /\ code' = c
  /\ session_id' = sid
  /\ daemonAtCall' = daemonUp
  \* the call that starts is the one that was waiting, if there is one
  /\ overlap' = waiting
  /\ waiting' = FALSE
  /\ LET gate == execute_code_gate(c, sid, docker_client)
         vr == validate(violations, c)
     IN
     IF gate = "no_code"
     THEN /\ envelope' = <<_error_response(<<"No code provided">>)>>
          /\ pc' = "done"
          /\ UNCHANGED <<violations, validation_result, raised, events>>
     ELSE IF gate = "no_session"
     THEN /\ envelope' = <<_error_response(<<"No session_id provided">>)>>
          /\ pc' = "done"
          /\ UNCHANGED <<violations, validation_result, raised, events>>
     ELSE IF gate = "no_docker"
     THEN /\ envelope' = <<_error_response(DockerUnavailableMessage)>>
          /\ pc' = "done"
          /\ UNCHANGED <<violations, validation_result, raised, events>>
     ELSE /\ events' = <<"validate">>
          /\ violations' = ViolationsAfter(violations, c)
          /\ IF vr.raised
             THEN \* line 138 is outside the try of line 147
                  /\ raised' = TRUE
                  /\ pc' = "done"
                  /\ UNCHANGED <<validation_result, envelope>>
             ELSE IF ~vr.safe
             THEN /\ validation_result' = <<vr>>
                  /\ envelope' = <<_error_response(ValidationFailedMessage(vr))>>
                  /\ pc' = "done"
                  /\ UNCHANGED raised
             ELSE /\ validation_result' = <<vr>>
                  /\ pc' = "write_temp"
                  /\ UNCHANGED <<envelope, raised>>
  /\ UNCHANGED <<envVars, heldVars, otherFiles, otherContainer, temp_path,
                 run_args, temp_file, fileExists, container, containerState,
                 exit_code, timed_out, execution_result, waitError>>

\* ------------------------------------------------------------------------
\* _execute_in_docker (lines 179-306) and _write_code_to_temp_file (308-329)
\* ------------------------------------------------------------------------
\* an exception reached one of the except clauses: the outcome is built and
\* control passes to the finally block
Raise(exc) ==
  /\ execution_result' = <<ExceptOutcome(exc)>>
  /\ pc' = "remove"

\* Step 1: mkstemp, then the preamble and the code are written
WriteTempFile ==
  /\ pc = "write_temp"
  /\ \E r \in {"ok", "mkstemp_fails", "write_fails"} :
       IF r = "ok"
       THEN /\ fileExists' = TRUE
            /\ temp_file' = TRUE
            /\ temp_path' = mkstemp(otherFiles)
            /\ events' = events \o <<"mkstemp", "write">>
            /\ pc' = "image_check"
            /\ UNCHANGED execution_result
       ELSE IF r = "mkstemp_fails"
       THEN /\ events' = events \o <<"mkstemp", "mkstemp failed">> \o ExceptLog("OSError")
            /\ Raise("OSError")
            /\ UNCHANGED <<fileExists, temp_file, temp_path>>
       ELSE \* the file exists, the write raises: the path is never returned
            /\ fileExists' = TRUE
            /\ temp_path' = mkstemp(otherFiles)
            /\ events' = events \o <<"mkstemp", "write", "write failed">>
                                  \o ExceptLog("OSError")
            /\ Raise("OSError")
            /\ UNCHANGED temp_file
  /\ UNCHANGED <<envVars, heldVars, otherFiles, otherContainer, run_args, waiting,
                 overlap, violations, code, session_id, validation_result,
                 container, containerState, exit_code, timed_out, envelope,
                 raised, waitError, daemonAtCall>>

\* Step 2: self.docker_client.images.get(self.DOCKER_IMAGE)
ImageCheck ==
  /\ pc = "image_check"
  /\ \E r \in ApiResults(daemonUp) :
       IF r = "ok" /\ imagePresent
       THEN /\ events' = events \o <<"images.get">>
            /\ pc' = "run"
            /\ UNCHANGED execution_result
       ELSE LET exc == IF r = "ok" THEN "ImageNotFound" ELSE r IN
            /\ events' = events \o <<"images.get", "images.get failed">>
                                  \o ExceptLog(exc)
            /\ Raise(exc)
  /\ UNCHANGED <<envVars, heldVars, ownerVars, violations, code, session_id, validation_result,
                 temp_file, fileExists, container, containerState, exit_code,
                 timed_out, envelope, raised, waitError, daemonAtCall>>

\* Step 3: self.docker_client.containers.run(..., detach=True, remove=False)
RunContainer ==
  /\ pc = "run"
  /\ \E r \in ApiResults(daemonUp) :
       IF r = "ok"
       THEN /\ events' = events \o <<"containers.run">>
            /\ container' = TRUE
            /\ run_args' = << [volume |-> temp_path, SESSION_ID |-> session_id] >>
            /\ containerState' = "running"
            /\ pc' = "wait"
            /\ UNCHANGED execution_result
       ELSE /\ events' = events \o <<"containers.run", "containers.run failed">>
                                  \o ExceptLog(r)
            /\ Raise(r)
            /\ UNCHANGED <<container, containerState, run_args>>
  /\ UNCHANGED <<envVars, heldVars, otherFiles, otherContainer, temp_path, waiting,
                 overlap, violations, code, session_id, validation_result,
                 temp_file, fileExists, exit_code, timed_out, envelope, raised,
                 waitError, daemonAtCall>>

\* Step 4: container.wait(timeout=TIMEOUT_SECONDS); any exception of it is
\* taken for the timeout (line 229)
\* variant: after a wait that raised, the output is read without the kill
Wait_skips_kill ==
  /\ pc = "wait"
  /\ containerState' = IF code.behaviour = "sleep" THEN "running" ELSE "exited"
  /\ \E r \in ApiResults(daemonUp) :
       IF r = "ok" /\ code.behaviour # "sleep"
       THEN /\ events' = events \o <<"wait">>
            /\ exit_code' = IF code.behaviour = "exit0" THEN 0 ELSE 1
            /\ timed_out' = FALSE
            /\ pc' = "logs"
            /\ UNCHANGED waitError
       ELSE /\ events' = events \o <<"wait", IF r = "ok" THEN "wait timeout"
                                                  ELSE "wait failed",
                                          "log: Container timeout">>
            /\ waitError' = IF r = "ok" THEN "timeout" ELSE "api"
            /\ exit_code' = -1
            /\ timed_out' = TRUE
            /\ pc' = "logs"
  /\ UNCHANGED <<envVars, heldVars, ownerVars, violations, code, session_id, validation_result,
                 temp_file, fileExists, container, execution_result, envelope,
                 raised, daemonAtCall>>

Wait ==
  /\ pc = "wait"
  /\ containerState' = IF code.behaviour = "sleep" THEN "running" ELSE "exited"
  /\ \E r \in ApiResults(daemonUp) :
       IF r = "ok" /\ code.behaviour # "sleep"
       THEN /\ events' = events \o <<"wait">>
            /\ exit_code' = IF code.behaviour = "exit0" THEN 0 ELSE 1
            /\ timed_out' = FALSE
            /\ pc' = "logs"
            /\ UNCHANGED waitError
       ELSE /\ events' = events \o <<"wait", IF r = "ok" THEN "wait timeout"
                                                  ELSE "wait failed",
                                          "log: Container timeout">>
            /\ waitError' = IF r = "ok" THEN "timeout" ELSE "api"
            /\ pc' = "kill"
            /\ UNCHANGED <<exit_code, timed_out>>
  /\ UNCHANGED <<envVars, heldVars, ownerVars, violations, code, session_id, validation_result,
                 temp_file, fileExists, container, execution_result, envelope,
                 raised, daemonAtCall>>

\* lines 231-237: container.kill(), whose exception is swallowed
Kill ==
  /\ pc = "kill"
  /\ \E r \in ApiResults(daemonUp) :
       IF r = "ok" /\ containerState = "running"
       THEN /\ events' = events \o <<"kill">>
            /\ containerState' = "exited"
       ELSE \* the API fails, or refuses because the container is not running
            /\ events' = events \o <<"kill", "kill failed">>
            /\ UNCHANGED containerState
  /\ exit_code' = -1
  /\ timed_out' = TRUE
  /\ pc' = "logs"
  /\ UNCHANGED <<envVars, heldVars, ownerVars, violations, code, session_id, validation_result,
                 temp_file, fileExists, container, execution_result, envelope,
                 raised, waitError, daemonAtCall>>

\* Step 5 and the return of lines 254-260
CaptureLogs ==
  /\ pc = "logs"
  /\ \E r \in ApiResults(daemonUp) :
       LET stdout == IF r = "ok" THEN code.out ELSE <<>>
           captured == IF r = "ok" THEN code.err
                       ELSE <<"Failed to capture logs: ", r>>
           stderr == WithTimeoutNotice(timed_out, captured)
       IN /\ events' = events \o (IF r = "ok" THEN <<"logs">>
                                   ELSE <<"logs", "logs failed",
                                          "log: Failed to capture logs">>)
          /\ execution_result' =
               <<Outcome(exit_code = 0 /\ ~timed_out, Strip(stdout),
                         Strip(stderr), exit_code, timed_out)>>
  /\ pc' = "remove"
  /\ UNCHANGED <<envVars, heldVars, ownerVars, violations, code, session_id, validation_result,
                 temp_file, fileExists, container, containerState, exit_code,
                 timed_out, envelope, raised, waitError, daemonAtCall>>

\* variant: a container that timed out is taken to be gone already
RemoveContainer_unless_timed_out ==
  /\ pc = "remove"
  /\ IF container /\ ~timed_out
     THEN \E r \in ApiResults(daemonUp) :
            IF r = "ok"
            THEN /\ events' = events \o <<"remove">>
                 /\ containerState' = "removed"
            ELSE /\ events' = events \o <<"remove", "remove failed",
                                         "log: Failed to remove container">>
                 /\ UNCHANGED containerState
     ELSE UNCHANGED <<events, containerState>>
  /\ pc' = "unlink"
  /\ UNCHANGED <<envVars, heldVars, ownerVars, violations, code, session_id, validation_result,
                 temp_file, fileExists, container, exit_code, timed_out,
                 execution_result, envelope, raised, waitError, daemonAtCall>>

\* finally, lines 294-299: container.remove(force=True) when there is a container
RemoveContainer ==
  /\ pc = "remove"
  /\ IF container
     THEN \E r \in ApiResults(daemonUp) :
            IF r = "ok"
            THEN /\ events' = events \o <<"remove">>
                 /\ containerState' = "removed"
            ELSE /\ events' = events \o <<"remove", "remove failed",
                                         "log: Failed to remove container">>
                 /\ UNCHANGED containerState
     ELSE UNCHANGED <<events, containerState>>
  /\ pc' = "unlink"
  /\ UNCHANGED <<envVars, heldVars, ownerVars, violations, code, session_id, validation_result,
                 temp_file, fileExists, container, exit_code, timed_out,
                 execution_result, envelope, raised, waitError, daemonAtCall>>

\* finally, lines 301-306: os.unlink(temp_file) when the path is known
UnlinkTemp ==
  /\ pc = "unlink"
  /\ IF temp_file /\ fileExists
     THEN \E ok \in BOOLEAN :
            /\ events' = events \o (IF ok THEN <<"unlink">>
                                     ELSE <<"unlink", "unlink failed",
                                            "log: Failed to remove temp file">>)
            /\ fileExists' = ~ok
            /\ otherFiles' = IF ok THEN otherFiles \ {temp_path} ELSE otherFiles
     ELSE UNCHANGED <<events, fileExists, otherFiles>>
  /\ pc' = "normalize"
  /\ UNCHANGED <<envVars, heldVars, otherContainer, temp_path, run_args, waiting,
                 overlap, violations, code, session_id, validation_result,
                 temp_file, container, containerState, exit_code, timed_out,
                 execution_result, envelope, raised, waitError, daemonAtCall>>

\* execute_code, lines 150-156
Normalize ==
  /\ pc = "normalize"
  /\ envelope' = <<normalize(execution_result[1])>>
  /\ pc' = "done"
  /\ UNCHANGED <<envVars, heldVars, ownerVars, violations, code, session_id, validation_result,
                 temp_file, fileExists, container, containerState, exit_code,
                 timed_out, execution_result, raised, events, waitError,
                 daemonAtCall>>

\* the call is over; the next call starts with fresh locals
Return ==
  /\ pc = "done"
  /\ pc' = "idle"
  /\ code' = SrcEmpty
  /\ session_id' = <<>>
  /\ validation_result' = <<>>
  /\ temp_file' = FALSE
  /\ fileExists' = FALSE
  /\ container' = FALSE
  /\ containerState' = "none"
  /\ exit_code' = 0
  /\ timed_out' = FALSE
  /\ execution_result' = <<>>
  /\ envelope' = <<>>
  /\ raised' = FALSE
  /\ events' = <<>>
  /\ waitError' = "none"
  /\ daemonAtCall' = FALSE
  \* what this call left behind is, for the next call, the other call's
  /\ otherFiles' = IF fileExists THEN {temp_path} ELSE {}
  /\ otherContainer' = IF containerState \in {"running", "exited"}
                       THEN containerState ELSE "none"
  /\ temp_path' = 0
  /\ run_args' = <<>>
  /\ overlap' = FALSE
  /\ UNCHANGED <<envVars, heldVars, violations, waiting>>

\* a second execute_code call is submitted while one is running
\* (asyncio.gather, or a second request): execute_code and
\* _execute_in_docker contain no await that yields to the event loop, so the
\* second call starts only when the running one has returned
Submit ==
  /\ pc # "idle"
  /\ ~waiting
  /\ waiting' = TRUE
  /\ UNCHANGED <<envVars, violations, callVars, heldVars, otherFiles,
                 otherContainer, temp_path, run_args, overlap>>

\* ------------------------------------------------------------------------
\* The environment
\* ------------------------------------------------------------------------
DaemonStop ==
  /\ daemonUp
  /\ daemonUp' = FALSE
  /\ UNCHANGED <<DOCKER_AVAILABLE, imagePresent, docker_client, violations, callVars, heldVars, ownerVars>>

DaemonStart ==
  /\ ~daemonUp
  /\ daemonUp' = TRUE
  /\ UNCHANGED <<DOCKER_AVAILABLE, imagePresent, docker_client, violations, callVars, heldVars, ownerVars>>

ImageBuild ==
  /\ ~imagePresent
  /\ imagePresent' = TRUE
  /\ UNCHANGED <<DOCKER_AVAILABLE, daemonUp, docker_client, violations, callVars, heldVars, ownerVars>>

ImageDelete ==
  /\ imagePresent
  /\ imagePresent' = FALSE
  /\ UNCHANGED <<DOCKER_AVAILABLE, daemonUp, docker_client, violations, callVars, heldVars, ownerVars>>

Next ==
  \/ \E c \in ExecSources, sid \in SessionIds : ExecuteCode(c, sid)
  \/ WriteTempFile
  \/ ImageCheck
  \/ RunContainer
  \/ Wait
  \/ Kill
  \/ CaptureLogs
  \/ RemoveContainer
  \/ UnlinkTemp
  \/ Normalize
  \/ Return
  \/ Submit
  \/ DaemonStop
  \/ DaemonStart
  \/ ImageBuild
  \/ ImageDelete

Spec == Init /\ [][Next]_vars

\* every step of a call that has started is taken: there is no await between
\* the steps of execute_code, and every call on the Docker API returns or
\* raises within the timeout of the client
Fairness ==
  /\ WF_vars(WriteTempFile)
  /\ WF_vars(ImageCheck)
  /\ WF_vars(RunContainer)
  /\ WF_vars(Wait)
  /\ WF_vars(Kill)
  /\ WF_vars(CaptureLogs)
  /\ WF_vars(RemoveContainer)
  /\ WF_vars(UnlinkTemp)
  /\ WF_vars(Normalize)

SpecFair == Spec /\ Fairness


\* ------------------------------------------------------------------------
\* The validator called on its own (as test_safety_validator does), on a
\* wider set of sources
\* ------------------------------------------------------------------------
Segments == {"os", "sys", "pandas", "math", "path", "unknown_module", "code_helpers"}

\* the dotted names of up to MaxParts segments
ModuleNames ==
  UNION { [1..n -> Segments] : n \in 1..MaxParts }

\* import m
ImportOnly(m) == Module(<< Import(<<m>>) >>)
\* from m import name
FromOnly(m) == Module(<< ImportFrom(<<m>>) >>)

ImportPrograms ==
  { ImportOnly(m) : m \in ModuleNames } \cup { FromOnly(m) : m \in ModuleNames }

\* from . import os: node.module is None; and imports inside a compound
\* statement (def f(): import m)
RelativePrograms ==
  { Module(<< ImportFrom(<<>>) >>),
    Module(<< Stmt(<< ImportFrom(<<>>) >>) >>) }
  \cup { Module(<< Stmt(<< Import(<<m>>) >>) >>) : m \in {<<"os">>, <<"math">>} }

Identifiers ==
  { <<"eval">>, <<"open">>, <<"__", "import", "__">>, <<"getattr">>,
    <<"print">>, <<"__", "builtins", "__">> }

Attrs ==
  { <<"system">>, <<"eval">>, <<"__", "class", "__">>, <<"__", "init", "__">> }

NameExprs == { Name(n) : n \in Identifiers }
\* f('...') for a bare name f
BareCalls == { Call(f, <<Constant>>) : f \in NameExprs }
\* x.attr
NameAttrs == { Attribute(v, a) : v \in NameExprs, a \in Attrs }
\* x.attr(), print(f('...')), print(x.attr), f('...').attr
NestedExprs ==
  { Call(f, <<>>) : f \in NameAttrs }
  \cup { Call(Name(<<"print">>), <<e>>) : e \in BareCalls \cup NameAttrs }
  \cup { Attribute(e, a) : e \in BareCalls, a \in Attrs }

ExprPrograms ==
  { Module(<< Stmt(<<e>>) >>) : e \in BareCalls \cup NameAttrs \cup NestedExprs }
  \* the expression inside a compound statement (def, if, for, ...)
  \cup { Module(<< Stmt(<< Stmt(<<e>>) >>) >>) : e \in BareCalls \cup NameAttrs }

\* sources at and over the line cap; the tree of a long parsable source
\* stands for its repeated statement x = 1
TreeAssign == Module(<< Stmt(<<Name(<<"x">>), Constant>>) >>)
\* "\n" * (MAX_CODE_LENGTH + 1): whitespace only, over the cap
SrcBlankLong ==
  Source(TRUE, TRUE, TRUE, MAX_CODE_LENGTH + 1, TRUE, "ok", NoTree, "exit0", <<>>, <<>>)
\* "(\n" * (MAX_CODE_LENGTH + 1): over the cap and unparsable
SrcLongSyntax ==
  Source(TRUE, TRUE, FALSE, MAX_CODE_LENGTH + 1, TRUE, "SyntaxError", NoTree,
         "exit0", <<>>, <<>>)
\* "x = 1\n" * MAX_CODE_LENGTH + "x = 1"
SrcLong ==
  Source(TRUE, TRUE, FALSE, MAX_CODE_LENGTH + 1, FALSE, "ok", TreeAssign,
         "exit0", <<>>, <<>>)
\* "x = 1\n" * (MAX_CODE_LENGTH - 1) + "x = 1"
SrcFull ==
  Source(TRUE, TRUE, FALSE, MAX_CODE_LENGTH, FALSE, "ok", TreeAssign,
         "exit0", <<>>, <<>>)
\* "x = 1\n" * MAX_CODE_LENGTH
SrcFullNL ==
  Source(TRUE, TRUE, FALSE, MAX_CODE_LENGTH, TRUE, "ok", TreeAssign,
         "exit0", <<>>, <<>>)
\* "x = 1\n" * (MAX_CODE_LENGTH - 1)
SrcUnderNL ==
  Source(TRUE, TRUE, FALSE, MAX_CODE_LENGTH - 1, TRUE, "ok", TreeAssign,
         "exit0", <<>>, <<>>)
LengthSources ==
  { SrcBlankLong, SrcLongSyntax, SrcLong, SrcFull, SrcFullNL, SrcUnderNL }

\* print(eval('1')) \n import os: the call sits deeper than the later import
SrcNested ==
  Program(Module(<< Stmt(<< Call(Name(<<"print">>),
                                 << Call(Name(<<"eval">>), <<Constant>>) >>) >>),
                    Import(<< <<"os">> >>) >>),
          "exit0", <<>>, <<>>)
\* import os \n eval('1'): the same two constructs, the import first
SrcFlat ==
  Program(Module(<< Import(<< <<"os">> >>),
                    Stmt(<< Call(Name(<<"eval">>), <<Constant>>) >>) >>),
          "exit0", <<>>, <<>>)

ValidatorSources ==
  ExecSources \cup LengthSources \cup {SrcNested, SrcFlat}
  \cup { Program(t, "exit0", <<>>, <<>>) :
           t \in ImportPrograms \cup RelativePrograms \cup ExprPrograms }

\* validator.validate(c) called directly
Validate(c) ==
  /\ pc = "idle"
  /\ code' = c
  /\ events' = <<"validate">>
  /\ violations' = ViolationsAfter(violations, c)
  /\ LET vr == validate(violations, c) IN
     IF vr.raised
     THEN raised' = TRUE /\ UNCHANGED validation_result
     ELSE validation_result' = <<vr>> /\ UNCHANGED raised
  /\ pc' = "done"
  \* a result still held from an earlier call changes only if its list is
  \* the object this call appends to
  /\ LET same == earlierShared /\ rebind_violations(violations).same_object IN
       /\ earlier' = IF earlier # <<>> /\ same
                     THEN << [earlier[1] EXCEPT
                               !.result.violations = ViolationsAfter(violations, c)] >>
                     ELSE earlier
       /\ earlierShared' = same
  /\ UNCHANGED <<envVars, ownerVars, session_id, temp_file, fileExists, container,
                 containerState, exit_code, timed_out, execution_result,
                 envelope, waitError, daemonAtCall>>

NextValidate ==
  \/ \E c \in ValidatorSources : Validate(c)
  \/ Return

\* validator = SafetyValidator(): no executor, no Docker client
InitValidate ==
  /\ DOCKER_AVAILABLE = FALSE
  /\ daemonUp = FALSE
  /\ imagePresent = FALSE
  /\ docker_client = FALSE
  /\ violations = <<>>
  /\ earlier = <<>>
  /\ earlierShared = FALSE
  /\ otherFiles = {}
  /\ otherContainer = "none"
  /\ temp_path = 0
  /\ run_args = <<>>
  /\ waiting = FALSE
  /\ overlap = FALSE
  /\ FreshCall

SpecValidate == InitValidate /\ [][NextValidate]_vars


\* ------------------------------------------------------------------------
\* One validator instance called again and again by a caller that keeps the
\* result of an earlier call (the loop of test_safety_validator)
\* ------------------------------------------------------------------------
\* eval('2+2')
SrcEval ==
  Program(Module(<< Stmt(<< Call(Name(<<"eval">>), <<Constant>>) >>) >>),
          "exit0", <<>>, <<>>)
\* import os \n import sys \n open('/etc/passwd')
SrcSeveral ==
  Program(Module(<< Import(<< <<"os">> >>), Import(<< <<"sys">> >>),
                    Stmt(<< Call(Name(<<"open">>), <<Constant>>) >>) >>),
          "exit0", <<>>, <<>>)
\* import math \n print(math.pi)
SrcMath ==
  Program(Module(<< Import(<< <<"math">> >>),
                    Stmt(<< Call(Name(<<"print">>),
                                 <<Attribute(Name(<<"math">>), <<"pi">>)>>) >>) >>),
          "exit0", <<"3.14", "\n">>, <<>>)

HistorySources == ExecSources \cup {SrcEval, SrcSeveral, SrcMath}

\* result = validator.validate(code) has returned and the caller keeps result
\* while it goes on to the next call
KeepResult ==
  /\ pc = "done"
  /\ validation_result # <<>>
  /\ earlier' = << [code |-> code, result |-> validation_result[1]] >>
  /\ earlierShared' = SharesList(code, violations)
  /\ pc' = "idle"
  /\ code' = SrcEmpty
  /\ session_id' = <<>>
  /\ validation_result' = <<>>
  /\ temp_file' = FALSE
  /\ fileExists' = FALSE
  /\ container' = FALSE
  /\ containerState' = "none"
  /\ exit_code' = 0
  /\ timed_out' = FALSE
  /\ execution_result' = <<>>
  /\ envelope' = <<>>
  /\ raised' = FALSE
  /\ events' = <<>>
  /\ waitError' = "none"
  /\ daemonAtCall' = FALSE
  /\ UNCHANGED <<envVars, violations, ownerVars>>

NextHistory ==
  \/ \E c \in HistorySources : Validate(c)
  \/ KeepResult
  \/ Return

SpecHistory == InitValidate /\ [][NextHistory]_vars


\* ------------------------------------------------------------------------
\* MCPTools (mcp_tools.py): list_tools and call_tool, as test_mcp_integration
\* calls them
\* ------------------------------------------------------------------------
\* the names of the tools list_tools returns, in order
ToolList ==
  <<"add_component", "edit_component", "delete_component", "create_relationship">>

\* the if/elif chain of call_tool: the handler a name is dispatched to
call_tool_route(name) ==
  IF name = "add_component" THEN "_add_component"
  ELSE IF name = "edit_component" THEN "_edit_component"
  ELSE IF name = "delete_component" THEN "_delete_component"
  ELSE IF name = "create_relationship" THEN "_create_relationship"
  ELSE "unknown"

UnknownToolResponse(name) ==
  [content |-> << [type |-> "text", text |-> <<"Unknown tool: ", name>>] >>,
   isError |-> TRUE]

\* what a handler returns: its confirmation, its own error envelope, or, when
\* it raises (a missing argument, the backend not answering), the envelope of
\* the except clause of call_tool
HandlerResponse(handler, r) ==
  IF r = "ok"
  THEN [content |-> << [type |-> "text", text |-> <<"<confirmation of ", handler, ">">>] >>]
  ELSE IF r = "rejected"
  THEN [content |-> << [type |-> "text", text |-> <<"<rejection of ", handler, ">">>] >>,
        isError |-> TRUE]
  ELSE [content |-> << [type |-> "text", text |-> <<"Error: ", "<exception>">>] >>,
        isError |-> TRUE]

\* the names tools are called by
CalledNames ==
  { ToolList[i] : i \in 1..Len(ToolList) } \cup {"execute_code", "no_such_tool"}

\* tools.list_tools()
ListTools ==
  /\ pc = "idle"
  /\ events' = <<"list_tools">> \o ToolList
  /\ pc' = "done"
  /\ UNCHANGED <<envVars, violations, heldVars, ownerVars, code, session_id,
                 validation_result, temp_file, fileExists, container,
                 containerState, exit_code, timed_out, execution_result,
                 envelope, raised, waitError, daemonAtCall>>

\* tools.call_tool(name, {"code": c, "session_id": sid})
CallTool(name, c, sid) ==
  /\ pc = "idle"
  /\ code' = c
  /\ session_id' = sid
  /\ events' = <<"call_tool", name>>
  /\ LET handler == call_tool_route(name) IN
     IF handler = "unknown"
     THEN envelope' = <<UnknownToolResponse(name)>>
     ELSE \E r \in {"ok", "rejected", "raised"} :
            envelope' = <<HandlerResponse(handler, r)>>
  /\ pc' = "done"
  /\ UNCHANGED <<envVars, violations, heldVars, ownerVars, validation_result,
                 temp_file, fileExists, container, containerState, exit_code,
                 timed_out, execution_result, raised, waitError, daemonAtCall>>

NextTools ==
  \/ ListTools
  \/ \E name \in CalledNames, c \in ExecSources, sid \in SessionIds :
       CallTool(name, c, sid)
  \/ Return

\* tools = MCPTools(context): no executor has been constructed
InitTools == InitValidate

SpecTools == InitTools /\ [][NextTools]_vars


\* ------------------------------------------------------------------------
\* Helpers of the properties
\* ------------------------------------------------------------------------
Happened(e) == \E i \in 1..Len(events) : events[i] = e

\* _execute_in_docker has returned, its finally block included
SandboxReturned == pc \in {"normalize", "done"} /\ execution_result # <<>>

\* validate has returned a result for the current source
Validated == pc = "done" /\ validation_result # <<>>

HasViolation(kind, detail) ==
  \E i \in 1..Len(validation_result[1].violations) :
     validation_result[1].violations[i] = [kind |-> kind, detail |-> detail]

\* every node of a tree
RECURSIVE Descendants(_)
Descendants(node) ==
  {node} \cup UNION { Descendants(node.kids[i]) : i \in 1..Len(node.kids) }

EnvelopeText == envelope[1].content[1].text

TimeoutNoticeLine ==
  <<"[TIMEOUT] Code execution exceeded ", "5", " seconds and was killed.">>

\* ------------------------------------------------------------------------
\* Properties
\* ------------------------------------------------------------------------

\* C1: a container is started only after non-empty code and session_id and a
\* safe validation in the same call; a call with empty code or session_id
\* returns an error envelope without validator or sandbox; an unsafe
\* validation writes no temp file and starts no container.
C1_ContainerOnlyAfterSafeValidation ==
  /\ Happened("containers.run") =>
       /\ code.truthy
       /\ session_id # <<>>
       /\ events[1] = "validate"
       /\ validation_result # <<>>
       /\ validation_result[1].safe
  /\ (pc # "idle" /\ (~code.truthy \/ session_id = <<>>)) =>
       /\ pc = "done"
       /\ envelope # <<>>
       /\ "isError" \in DOMAIN envelope[1]
       /\ events = <<>>
  /\ (validation_result # <<>> /\ ~validation_result[1].safe) =>
       /\ ~Happened("mkstemp")
       /\ ~Happened("containers.run")
       /\ ~fileExists
       /\ containerState = "none"

C1_Witness ==
  /\ pc = "wait"
  /\ containerState = "running"
  /\ validation_result[1].safe

\* C2 (as claimed): once the sandbox run has returned, on every path, the temp
\* file of the invocation is gone and its container neither exists nor runs.
C2_CleanupLeavesNothing ==
  (pc \in {"normalize", "done"} /\ Happened("mkstemp")) =>
     /\ ~fileExists
     /\ containerState \in {"none", "removed"}

\* C3 (as claimed): for a program still running at the deadline the outcome
\* has timed_out and not success, and the container is not running when the
\* run returns.
C3_DeadlineEnforced ==
  (SandboxReturned /\ code.behaviour = "sleep" /\ Happened("wait")) =>
     /\ execution_result[1].timed_out
     /\ ~execution_result[1].success
     /\ containerState # "running"


\* C4: a program that only imports m is safe when m or a dotted prefix of m is
\* in ALLOWED_IMPORTS and m is not denied, is unsafe with a dangerous_import
\* violation when m is in DANGEROUS_IMPORTS, and is unsafe when the top-level
\* name of m is in neither set.
C4_AllowListSoundness ==
  \A m \in ModuleNames :
    (Validated /\ code.tree \in {ImportOnly(m), FromOnly(m)}) =>
      /\ ( /\ \E i \in 1..Len(m) : SubSeq(m, 1, i) \in ALLOWED_IMPORTS
           /\ m \notin DANGEROUS_IMPORTS )
         => validation_result[1].safe
      /\ m \in DANGEROUS_IMPORTS
         => ~validation_result[1].safe /\ HasViolation("dangerous_import", m)
      /\ <<m[1]>> \notin (ALLOWED_IMPORTS \cup DANGEROUS_IMPORTS)
         => ~validation_result[1].safe

C4_Witness ==
  /\ Validated
  /\ code.tree = ImportOnly(<<"pandas", "path">>)
  /\ validation_result[1].safe

C6_DangerousBuiltinCalls ==
  Validated =>
    \A n \in Descendants(code.tree) :
      ( /\ n.kind = "Call"
        /\ n.kids[1].kind = "Name"
        /\ n.kids[1].id \in DANGEROUS_BUILTINS )
      => /\ ~validation_result[1].safe
         /\ HasViolation("dangerous_builtin", n.kids[1].id)

\* print(eval('...')): the dangerous call is an argument of another call
C6_Witness ==
  /\ Validated
  /\ code.tree = Module(<< Stmt(<< Call(Name(<<"print">>),
                                        << Call(Name(<<"eval">>), <<Constant>>) >>) >>) >>)
  /\ HasViolation("dangerous_builtin", <<"eval">>)

\* C7 (as claimed): no exception leaves execute_code.
C7_NoExceptionEscapes ==
  pc = "done" => ~raised

\* a failure of the infrastructure during the try block of _execute_in_docker
InfrastructureFailure ==
  \E e \in {"mkstemp failed", "write failed", "images.get failed",
            "containers.run failed", "wait failed", "logs failed"} : Happened(e)

\* C8 (as claimed): the sandbox run returns an outcome and never raises, every
\* infrastructure failure gives success = false, and the cleanup runs.
C8_FailuresAreOutcomes ==
  (pc \in {"normalize", "done"} /\ Happened("mkstemp")) =>
     /\ execution_result # <<>>
     /\ InfrastructureFailure => ~execution_result[1].success
     /\ container => Happened("remove")
     /\ temp_file => Happened("unlink")

\* C9 (as claimed): a call with non-empty arguments is rejected as "Docker is
\* not available", before the validator, exactly when the runtime is not
\* available at the time of the call.
C9_AvailabilityAtCallTime ==
  (pc # "idle" /\ code.truthy /\ session_id # <<>>) =>
     /\ ~(DOCKER_AVAILABLE /\ daemonAtCall) =>
          /\ pc = "done"
          /\ envelope = <<_error_response(DockerUnavailableMessage)>>
          /\ events = <<>>
     /\ (DOCKER_AVAILABLE /\ daemonAtCall) =>
          envelope # <<_error_response(DockerUnavailableMessage)>>

OutcomeFields == {"success", "stdout", "stderr", "exit_code", "timed_out"}

\* a stage failed before anything the container wrote was captured
FailedBeforeOutput ==
  \/ Happened("mkstemp failed")
  \/ Happened("write failed")
  \/ Happened("images.get failed")
  \/ Happened("containers.run failed")
  \/ Happened("logs failed")

\* C11: every outcome of _execute_in_docker, on every path, carries the five
\* fields, has success = (exit_code = 0 and not timed_out), and, when a stage
\* failed before the container's output was captured, has an empty stdout and
\* a non-empty stderr.
C11_OutcomeWellFormed ==
  execution_result # <<>> =>
    LET o == execution_result[1] IN
      /\ DOMAIN o = OutcomeFields
      /\ o.success \in BOOLEAN /\ o.timed_out \in BOOLEAN /\ o.exit_code \in Int
      /\ o.success = (o.exit_code = 0 /\ ~o.timed_out)
      /\ FailedBeforeOutput => (o.stdout = <<>> /\ o.stderr # <<>>)

\* an outcome built by an except clause
C11_Witness ==
  /\ SandboxReturned
  /\ Happened("containers.run failed")
  /\ execution_result[1].exit_code = -1

\* validate has reached ast.parse with the current source and it raised
ParseFails ==
  /\ code.truthy /\ code.isStr /\ ~code.blank
  /\ SplitLen(code) <= MAX_CODE_LENGTH
  /\ code.parse # "ok"

Contains(text, token) == \E i \in 1..Len(text) : text[i] = token

C13_ValidationHistoryFree ==
  /\ Validated => validation_result[1] = validate(<<>>, code)
  /\ (Validated /\ earlier # <<>> /\ earlier[1].code = code)
       => validation_result[1] = earlier[1].result
  /\ (Validated /\ ScanReached(code))
       => validation_result[1].violations = Scan(code.tree)
  /\ earlier # <<>> => earlier[1].result = validate(<<>>, earlier[1].code)

\* a clean source validated after a source with several violations whose
\* result the caller still holds
C13_Witness ==
  /\ Validated
  /\ validation_result[1].safe
  /\ earlier # <<>>
  /\ Len(earlier[1].result.violations) > 1
  /\ earlier[1].code # code

Count(e) == Cardinality({ i \in 1..Len(events) : events[i] = e })

\* the stage of the sandbox run the current call is in
Stage ==
  CASE pc = "idle" -> "NotStarted"
    [] pc \in {"write_temp", "image_check", "run"} -> "Provisioning"
    [] pc = "wait" -> "Running"
    [] pc = "kill" -> "TimedOut"
    [] pc = "logs" -> IF timed_out THEN "TimedOut" ELSE "Completed"
    [] pc \in {"remove", "unlink"} -> "Cleanup"
    [] pc \in {"normalize", "done"} -> "Done"

\* the moves between stages the claim allows; a run that crashes before the
\* program starts goes from Provisioning straight to Cleanup
StageMoves ==
  { <<"NotStarted", "Provisioning">>, <<"NotStarted", "Done">>,
    <<"Provisioning", "Running">>, <<"Provisioning", "Cleanup">>,
    <<"Running", "Completed">>, <<"Running", "TimedOut">>,
    <<"Completed", "Cleanup">>, <<"TimedOut", "Cleanup">>,
    <<"Cleanup", "Done">>, <<"Done", "NotStarted">> }

ContainerCreated ==
  Happened("containers.run") /\ ~Happened("containers.run failed")

\* container.remove is attempted at most once, only on a container that was
\* created, only in Cleanup or later and after every operation of the run
\* stage; once Cleanup is over it has been attempted iff a container was created
TeardownOnce ==
  /\ Count("remove") <= 1
  /\ Happened("remove") =>
       /\ ContainerCreated
       /\ Stage \in {"Cleanup", "Done"}
       /\ \A i, j \in 1..Len(events) :
            (events[i] = "remove"
             /\ events[j] \in {"containers.run", "wait", "kill", "logs"}) => j < i
  /\ (pc \in {"unlink", "normalize"} \/ (pc = "done" /\ execution_result # <<>>))
       => Count("remove") = (IF ContainerCreated THEN 1 ELSE 0)

\* C14: the stages of one invocation follow Provisioning -> Running ->
\* {Completed | TimedOut | CrashedBeforeStart} -> Cleanup -> Done, and the
\* container is torn down exactly once: container.remove is attempted exactly
\* once, after the run stage, when a container was created, and never when
\* none was.
C14_StagesAndSingleTeardown ==
  /\ []TeardownOnce
  /\ [][Stage' = Stage \/ <<Stage, Stage'>> \in StageMoves]_vars

\* a timed-out run whose container.remove has been attempted, and the call
\* has finished
C14_Witness ==
  /\ pc = "done"
  /\ timed_out
  /\ Count("remove") = 1
  /\ Happened("kill")

LogRecords ==
  { "log: Docker API error", "log: Unexpected error during Docker execution",
    "log: Container timeout", "log: Failed to capture logs",
    "log: Failed to remove container", "log: Failed to remove temp file" }

\* the handler of the failed kill wrote a record to the log
KillFailureLogged ==
  \E i \in 1..Len(events) :
     /\ events[i] = "kill failed"
     /\ i < Len(events)
     /\ events[i + 1] \in LogRecords

\* every sandbox run that has started returns an outcome
RunReturns == (pc = "write_temp") ~> SandboxReturned

\* C15: every invocation of the sandbox run eventually returns an outcome; a
\* container that has not exited at the deadline is killed; when the kill
\* fails the run still returns, with timed_out = true, and the failure is
\* logged.
C15_RunReturnsKillFailureLogged ==
  /\ RunReturns
  /\ []((SandboxReturned /\ Happened("wait timeout")) => Happened("kill"))
  /\ []((SandboxReturned /\ Happened("kill failed"))
          => (execution_result[1].timed_out /\ KillFailureLogged))

\* the same without the log record
C15_RunReturnsTimedOut ==
  /\ RunReturns
  /\ []((SandboxReturned /\ Happened("wait timeout")) => Happened("kill"))
  /\ []((SandboxReturned /\ Happened("kill failed"))
          => execution_result[1].timed_out)

\* the envelope execute_code returns for the arguments and the sandbox outcome
\* of the current call on an executor that has served no other call
AloneEnvelope ==
  LET gate == execute_code_gate(code, session_id, docker_client)
      vr == validate(<<>>, code)
  IN IF gate = "no_code" THEN _error_response(<<"No code provided">>)
     ELSE IF gate = "no_session" THEN _error_response(<<"No session_id provided">>)
     ELSE IF gate = "no_docker" THEN _error_response(DockerUnavailableMessage)
     ELSE IF ~vr.safe THEN _error_response(ValidationFailedMessage(vr))
     ELSE normalize(execution_result[1])

\* what a call has is what it would have alone
OwnResults ==
  /\ validation_result # <<>> => validation_result[1] = validate(<<>>, code)
  /\ temp_path # 0 => temp_path \notin otherFiles
  /\ run_args # <<>> =>
       /\ temp_path # 0
       /\ run_args[1] = [volume |-> temp_path, SESSION_ID |-> session_id]
  /\ (pc = "done" /\ envelope # <<>>) => envelope[1] = AloneEnvelope

MessageKind(stderr) == stderr[1]

\* the exceptions by which each cause of a provisioning failure shows
StagingExceptions == {"OSError"}
ImageMissingExceptions == {"ImageNotFound"}
DaemonUnreachableExceptions == {"ConnectionError"}

KindsOf(exceptions) == { MessageKind(ExceptOutcome(e).stderr) : e \in exceptions }

StagingFailed == Happened("mkstemp failed") \/ Happened("write failed")

ProvisioningFailed ==
  \/ StagingFailed
  \/ Happened("images.get failed")
  \/ Happened("containers.run failed")

\* C17: when provisioning fails before the program starts, the outcome has
\* success = false and a stderr whose wording tells which cause it was: image
\* missing, daemon unreachable or staging failure each have a wording of their
\* own, which no other of the three has.
C17_ProvisioningCauseDistinguishable ==
  (SandboxReturned /\ ProvisioningFailed) =>
    LET o == execution_result[1]
        k == MessageKind(o.stderr)
    IN /\ ~o.success
       /\ o.stderr # <<>>
       /\ KindsOf(ImageMissingExceptions) \cap KindsOf(DaemonUnreachableExceptions) = {}
       /\ StagingFailed =>
            k \notin KindsOf(ImageMissingExceptions \cup DaemonUnreachableExceptions)
       /\ ~StagingFailed => k \notin KindsOf(StagingExceptions)

\* the envelope has one content item, of type text, with a non-empty text; a
\* success with an empty stdout says so
EnvelopeWellFormed ==
  /\ envelope # <<>>
  /\ Len(envelope[1].content) = 1
  /\ envelope[1].content[1].type = "text"
  /\ EnvelopeText # <<>>
  /\ (execution_result # <<>> /\ execution_result[1].success
       /\ execution_result[1].stdout = <<>>)
      => EnvelopeText = <<"Code executed successfully (no output)">>

\* C18: every call to execute_code, whatever path it takes, returns an
\* envelope with exactly one content item whose text is not empty; a success
\* with an empty stdout says 'no output'.
C18_EveryCallReturnsOneTextItem ==
  pc = "done" => EnvelopeWellFormed

\* the same for the calls that return
C18_ReturnedEnvelopeWellFormed ==
  (pc = "done" /\ ~raised) => EnvelopeWellFormed

\* call_tool("execute_code", ...) has returned
ExecuteCodeToolCalled ==
  /\ pc = "done"
  /\ Len(events) = 2
  /\ events[1] = "call_tool"
  /\ events[2] = "execute_code"

\* C19: list_tools lists a tool named execute_code, and
\* call_tool('execute_code', {code, session_id}) is dispatched to the code
\* executor and returns its envelope, not an unknown-tool error.
C19_ExecuteCodeToolRegistered ==
  /\ (pc = "done" /\ events # <<>> /\ events[1] = "list_tools")
       => Happened("execute_code")
  /\ ExecuteCodeToolCalled =>
       /\ envelope # <<>>
       /\ envelope[1] # UnknownToolResponse("execute_code")
       /\ envelope[1] = AloneEnvelope

\* the modules named by the import statements of a tree
ImportedModules(tree) ==
  UNION { { n.mods[i] : i \in 1..Len(n.mods) } :
          n \in { d \in Descendants(tree) : d.kind \in {"Import", "ImportFrom"} } }

\* the modules that the statements at the top of a module bind to a name of
\* the namespace: import a.b binds a
BoundModules(tree) ==
  UNION { { <<n.mods[i][1]>> : i \in 1..Len(n.mods) } :
          n \in { tree.kids[k] : k \in 1..Len(tree.kids) } \cap
                { d \in Descendants(tree) : d.kind = "Import" } }

\* C20: the text run in the container, the preamble followed by the user
\* source, stays inside the policy the validator enforces: it imports no module
\* of DANGEROUS_IMPORTS and binds none in the namespace the user source runs in.
C20_StagedTextWithinPolicy ==
  Happened("write") =>
    LET staged == _write_code_to_temp_file(code) IN
      /\ ImportedModules(staged) \cap DANGEROUS_IMPORTS = {}
      /\ BoundModules(staged) \cap DANGEROUS_IMPORTS = {}

\* user source that names os without importing it has passed validation and
\* has run in a namespace where the preamble bound os
C20_DeniedModuleReached ==
  /\ SandboxReturned
  /\ code = SrcUsesOs
  /\ validation_result[1].safe
  /\ execution_result[1].success
  /\ <<"os">> \in BoundModules(_write_code_to_temp_file(code))

\* an attribute access whose receiver is the name __builtins__
OnBuiltins(n) ==
  /\ n.kind = "Attribute"
  /\ n.kids[1].kind = "Name"
  /\ n.kids[1].id = <<"__", "builtins", "__">>

\* C21: every attribute access whose receiver is the literal name
\* __builtins__, whether the attribute is called (__builtins__.eval('x')) or
\* only read (f = __builtins__.eval), records a builtin_access violation and
\* makes validation unsafe.
C21_BuiltinsReceiverDenied ==
  Validated =>
    \A n \in Descendants(code.tree) :
      OnBuiltins(n) =>
        /\ ~validation_result[1].safe
        /\ HasViolation("builtin_access", <<"__", "builtins", "__", ".">> \o n.id)

\* C22: every import statement in the tree, of either form, absolute or
\* relative, at any depth, is tested against the module policy; each one that
\* fails the test records a dangerous_import violation, and no import
\* statement is in a source judged safe without having been tested.
C22_EveryImportTested ==
  (Validated /\ ScanReached(code)) =>
    \A n \in Descendants(code.tree) :
      n.kind \in {"Import", "ImportFrom"} =>
        /\ \A i \in 1..Len(n.mods) :
             ~_is_import_safe(n.mods[i])
               => HasViolation("dangerous_import", n.mods[i])
        \* a statement with no module name to test has not been tested
        /\ validation_result[1].safe => n.mods # <<>>

\* C23: every attribute access whose name starts and ends with a double
\* underscore makes validation unsafe with a dunder_access violation for that
\* name, unless the name is __init__, __str__, __repr__ or __len__, for which
\* none is recorded; this holds too when the attribute is the function of a
\* call or is reached on the __builtins__ receiver.
C23_DunderAccessDenied ==
  Validated =>
    \A n \in Descendants(code.tree) :
      (n.kind = "Attribute" /\ Len(n.id) > 1 /\ n.id[1] = "__" /\ n.id[Len(n.id)] = "__") =>
        IF n.id \in { <<"__", "init", "__">>, <<"__", "str", "__">>,
                      <<"__", "repr", "__">>, <<"__", "len", "__">> }
        THEN ~HasViolation("dunder_access", n.id)
        ELSE /\ ~validation_result[1].safe
             /\ HasViolation("dunder_access", n.id)

\* __builtins__.__class__(): the dunder attribute is the function of a call
\* and its receiver is __builtins__
C23_Witness ==
  /\ Validated
  /\ code.tree = Module(<< Stmt(<< Call(Attribute(Name(<<"__", "builtins", "__">>),
                                                  <<"__", "class", "__">>), <<>>) >>) >>)
  /\ HasViolation("dunder_access", <<"__", "class", "__">>)
  /\ HasViolation("builtin_access", <<"__", "builtins", "__", ".", "__", "class", "__">>)

\* C24: validate never raises to its caller and fails closed: for every input,
\* a non-string included, the call returns a result, and a result for an input
\* the scan could not handle has safe = FALSE.
C24_ValidateNeverRaises ==
  (pc = "done" /\ events = <<"validate">>) =>
    /\ ~raised
    /\ validation_result # <<>>
    /\ ~code.isStr => ~validation_result[1].safe

\* container.logs failed during the sandbox run of the current call
CaptureFailed == pc = "done" /\ envelope # <<>> /\ Happened("logs failed")

\* C25: whenever container.logs fails, the outcome's stderr carries the
\* capture-failure message and the envelope returned for that run reports the
\* capture failure, also when the container exited with code 0.
C25_CaptureFailureReported ==
  CaptureFailed =>
    /\ Contains(execution_result[1].stderr, "Failed to capture logs: ")
    /\ Contains(EnvelopeText, "Failed to capture logs: ")

\* the violations of the returned result are exactly one entry of this kind
Sole(kind) ==
  /\ ~validation_result[1].safe
  /\ Len(validation_result[1].violations) = 1
  /\ validation_result[1].violations[1].kind = kind

\* the number of violations the scan's branches find on the nodes of a tree
RECURSIVE ViolatingTotal(_)
ViolatingTotal(node) ==
  Len(ScanNode(node))
  + (LET RECURSIVE Sum(_)
         Sum(i) == IF i = 0 THEN 0 ELSE ViolatingTotal(node.kids[i]) + Sum(i - 1)
     IN Sum(Len(node.kids)))

\* C26: the gates are applied in the order empty, too long, syntax, scan: the
\* first of the three gates that fails gives a result with exactly that one
\* violation (whitespace-only source of any length gives only empty_code,
\* over-long unparsable source gives only code_too_long), and the scan records
\* the violation of every violating node of the whole tree.
C26_GateOrderAndAccumulation ==
  (Validated /\ code.isStr) =>
    IF ~code.truthy \/ code.blank THEN Sole("empty_code")
    ELSE IF SplitLen(code) > MAX_CODE_LENGTH THEN Sole("code_too_long")
    ELSE IF code.parse = "SyntaxError" THEN Sole("syntax_error")
    ELSE code.parse = "ok" =>
           /\ \A n \in Descendants(code.tree) :
                \A i \in 1..Len(ScanNode(n)) :
                   HasViolation(ScanNode(n)[i].kind, ScanNode(n)[i].detail)
           /\ Len(validation_result[1].violations) = ViolatingTotal(code.tree)

\* print(eval('1')) \n import os: two violating nodes, both recorded
C26_Witness ==
  /\ Validated
  /\ code = SrcNested
  /\ Len(validation_result[1].violations) = 2
  /\ HasViolation("dangerous_builtin", <<"eval">>)
  /\ HasViolation("dangerous_import", <<"os">>)

\* the nodes of a tree in pre-order: a node, then its subtrees left to right
RECURSIVE PreOrder(_)
PreOrder(node) ==
  LET RECURSIVE Kids(_)
      Kids(i) == IF i > Len(node.kids) THEN <<>>
                 ELSE PreOrder(node.kids[i]) \o Kids(i + 1)
  IN <<node>> \o Kids(1)

\* C27: the violations list is in pre-order (source order) of the syntax
\* tree and the reason is the message for the first violation in that order,
\* while the full list is still returned.
C27_ViolationsInPreOrder ==
  (Validated /\ ScanReached(code)) =>
    LET ordered == ScanAll(PreOrder(code.tree)) IN
      /\ validation_result[1].violations = ordered
      /\ ordered # <<>> =>
           validation_result[1].reason = _format_violation_message(ordered[1])

\* C28: a non-empty source is rejected as code_too_long exactly when its
\* number of lines exceeds MAX_CODE_LENGTH; a source of MAX_CODE_LENGTH + 1
\* lines is rejected with both numbers shown in the reason, and a source of
\* at most MAX_CODE_LENGTH lines passes the length gate whether or not its
\* last line ends with a newline.
C28_TooLongExactlyOverCap ==
  (Validated /\ code.isStr /\ code.truthy /\ ~code.blank) =>
    /\ HasViolation("code_too_long", <<>>) <=> code.lines > MAX_CODE_LENGTH
    /\ code.lines = MAX_CODE_LENGTH + 1 =>
         /\ Contains(validation_result[1].reason, ToString(MAX_CODE_LENGTH + 1))
         /\ Contains(validation_result[1].reason, ToString(MAX_CODE_LENGTH))

\* C29: an outcome has timed_out = TRUE (and the [TIMEOUT] notice) only if the
\* container had not exited when TIMEOUT_SECONDS elapsed: a failure of
\* container.wait for any other reason is not reported as a timeout and does
\* not cause the container to be killed as timed out.
C29_TimedOutOnlyOnDeadline ==
  SandboxReturned =>
    /\ execution_result[1].timed_out => waitError = "timeout"
    /\ Contains(execution_result[1].stderr, TimeoutNotice[1]) => waitError = "timeout"
    /\ Happened("wait failed") => ~Happened("kill")

\* every a of the event log comes before every b
Before(a, b) ==
  \A i, j \in 1..Len(events) : (events[i] = a /\ events[j] = b) => i < j

\* C30: within one sandbox invocation the temp file is completely written
\* before the container is started, output is read only after the container
\* has exited or a kill was attempted, the container is removed only after
\* output capture was attempted, the temp file is unlinked only after
\* container removal was attempted, container.logs is never called after
\* container.remove, and the mounted temp file is never unlinked while its
\* container still exists unless the removal of that container failed.
C30_LifecycleOrdered ==
  /\ Happened("containers.run") =>
       /\ Happened("write") /\ ~Happened("write failed")
       /\ Before("write", "containers.run")
  /\ Happened("logs") =>
       \/ /\ Happened("wait") /\ Before("wait", "logs")
          /\ ~Happened("wait timeout") /\ ~Happened("wait failed")
       \/ Happened("kill") /\ Before("kill", "logs")
  /\ Happened("remove") => Happened("logs") /\ Before("logs", "remove")
  /\ Happened("unlink") =>
       /\ ContainerCreated => Happened("remove") /\ Before("remove", "unlink")
       /\ (container /\ containerState # "removed") => Happened("remove failed")

\* a run that timed out, was killed, read, removed and unlinked
C30_Witness ==
  /\ pc = "done"
  /\ Happened("wait timeout")
  /\ Before("kill", "logs")
  /\ Before("logs", "remove")
  /\ Before("remove", "unlink")
  /\ Happened("unlink") /\ ~Happened("unlink failed")
  /\ containerState = "removed"

====
